---- MODULE Spec2Model ----
(***************************************************************************)
(* A model of the packed bit buffer of src/bitarray/_bitarray.py.          *)
(*                                                                         *)
(* A bitarray object is a record [endian, nbits, buffer]:                  *)
(*   endian  0 = little, 1 = big        (self._endian)                     *)
(*   nbits   number of logical bits     (self._nbits)                      *)
(*   buffer  sequence of bytes 0..255   (self._buffer, a bytearray)        *)
(* Python index i of the bytearray is buffer[i + 1] here.                  *)
(* A method that mutates self is an operator that returns the new self.    *)
(***************************************************************************)
EXTENDS Integers, Sequences, FiniteSets, TLC

VARIABLES
    self,    \* the bitarray the operations act on
    other,   \* a second, distinct bitarray (argument of copy, extend, compare)
    op,      \* name of the operation that produced this state
    args,    \* its arguments
    old,     \* self as it was when the operation was called
    ret,     \* what the call gave back: Returned(value) or Raised(exception)
    steps    \* number of operations called so far

vars == <<self, other, op, args, old, ret, steps>>

-----------------------------------------------------------------------------
(* Byte arithmetic: Python's <<, >>, &, |, ^, ~ on ints                     *)

Pow2(k) == 2 ^ k

\* (x >> j) & 1, also for negative x (Python ints are two's complement)
BitAt(x, j) == (x \div Pow2(j)) % 2

\* x & y for 0 <= x <= 255 (y any int)
BitAnd(x, y) ==
    BitAt(x, 0) * BitAt(y, 0) + 2 * BitAt(x, 1) * BitAt(y, 1)
    + 4 * BitAt(x, 2) * BitAt(y, 2) + 8 * BitAt(x, 3) * BitAt(y, 3)
    + 16 * BitAt(x, 4) * BitAt(y, 4) + 32 * BitAt(x, 5) * BitAt(y, 5)
    + 64 * BitAt(x, 6) * BitAt(y, 6) + 128 * BitAt(x, 7) * BitAt(y, 7)

\* x | y for bytes
BitOr(x, y) == x + y - BitAnd(x, y)

\* x ^ y for bytes
BitXor(x, y) == x + y - 2 * BitAnd(x, y)

\* ~x
BitNot(x) == -x - 1

\* Python slicing of a sequence: s[lo:hi] with 0 <= lo, 0 <= hi
Min(x, y) == IF x < y THEN x ELSE y
Max(x, y) == IF x > y THEN x ELSE y

Slice(s, lo, hi) ==
    LET l == Min(lo, Len(s))
        h == Max(Min(hi, Len(s)), l)
    IN  SubSeq(s, l + 1, h)

\* s[lo:hi] = x   (the sequence may change its length)
SliceAssign(s, lo, hi, x) ==
    LET l == Min(lo, Len(s))
        h == Max(Min(hi, Len(s)), l)
    IN  SubSeq(s, 1, l) \o x \o SubSeq(s, h + 1, Len(s))

\* bytearray(n), n * b'\0', n * b'\xff'
Bytes(n, v) == [i \in 1..n |-> v]

-----------------------------------------------------------------------------
(* bitarray._header (not part of the sources at hand)                       *)

\* mask of logical bit k of a byte
bitmask_table(endian, k) == IF endian = 1 THEN Pow2(7 - k) ELSE Pow2(k)

\* mask of the first k logical bits of a byte
ones_table(endian, k) ==
    IF endian = 1 THEN 256 - Pow2(8 - k) ELSE Pow2(k) - 1

\* the byte with its bits in reverse order
reverse_table(x) ==
    128 * BitAt(x, 0) + 64 * BitAt(x, 1) + 32 * BitAt(x, 2) + 16 * BitAt(x, 3)
    + 8 * BitAt(x, 4) + 4 * BitAt(x, 5) + 2 * BitAt(x, 6) + BitAt(x, 7)

\* number of 1 bits of a byte
bitcount_lookup(x) ==
    BitAt(x, 0) + BitAt(x, 1) + BitAt(x, 2) + BitAt(x, 3)
    + BitAt(x, 4) + BitAt(x, 5) + BitAt(x, 6) + BitAt(x, 7)

\* position of logical bit k of a byte, counted from the least significant bit
bitpos(endian, k) == IF endian = 1 THEN 7 - k ELSE k

getbit(ba, i) == BitAt(ba.buffer[(i \div 8) + 1], bitpos(ba.endian, i % 8))

\* vi is taken by its truth value, as in Python
setbit(ba, i, vi) ==
    LET mask == bitmask_table(ba.endian, i % 8)
        byte == ba.buffer[(i \div 8) + 1]
        isset == BitAt(byte, bitpos(ba.endian, i % 8))
    IN  [ba EXCEPT !.buffer[(i \div 8) + 1] =
            IF vi # 0 THEN byte + (1 - isset) * mask ELSE byte - isset * mask]

\* the last byte with its pad bits cleared; the buffer is not changed
zeroed_last_byte(ba) ==
    LET r == ba.nbits % 8
    IN  IF r = 0 THEN 0
        ELSE BitAnd(ba.buffer[Len(ba.buffer)], ones_table(ba.endian, r))

\* clamp an index into 0..length (step > 0) or -1..length-1 (step < 0)
normalize_index(length, step, i) ==
    IF i < 0
    THEN IF i + length < 0 THEN (IF step < 0 THEN -1 ELSE 0) ELSE i + length
    ELSE IF i >= length THEN (IF step < 0 THEN length - 1 ELSE length)
    ELSE i

\* clear the pad bits in place; returns <<new self, number of pad bits>>
setunused(ba) ==
    LET r == ba.nbits % 8
        n == Len(ba.buffer)
    IN  IF r = 0 THEN <<ba, 0>>
        ELSE <<[ba EXCEPT !.buffer[n] = BitAnd(ba.buffer[n], ones_table(ba.endian, r))],
               8 - r>>

-----------------------------------------------------------------------------
(* Module-level helpers                                                     *)

Py_LT == 1
Py_LE == 2
Py_EQ == 3
Py_NE == 4
Py_GT == 5
Py_GE == 6

\* sys.maxsize, scaled down so that the overflow test of _repeat is reached
\* with buffers of a few bytes
maxsize == 30

\* what a call gives back: a returned value or a raised exception
None == [none |-> TRUE]
Returned(v) == [exc |-> "none", val |-> v]
Raised(e) == [exc |-> e, val |-> None]
\* the result of a method: the new self and what the call gave back
Result(ba, r) == [self |-> ba, ret |-> r]

bits2bytes(n) == (n + 7) \div 8

default_endian == 1

endian_from_string(str) ==
    IF str = "<default>" THEN default_endian
    ELSE IF str = "little" THEN 0
    ELSE 1

calc_slicelength(start, stop, step) ==
    IF step < 0
    THEN IF stop < start THEN ((start - stop - 1) \div (-step)) + 1 ELSE 0
    ELSE IF start < stop THEN ((stop - start - 1) \div step) + 1 ELSE 0

\* returns <<start, stop, step>>
make_step_positive(slicelength, start, stop, step) ==
    IF step < 0
    THEN LET stop1 == start + 1
         IN  <<stop1 + step * (slicelength - 1) - 1, stop1, -step>>
    ELSE <<start, stop, step>>

\* slice(start, stop, step).indices(n) of Python, for int start and stop;
\* returns <<start, stop, step>>
slice_indices(start, stop, step, n) ==
    LET lower == IF step < 0 THEN -1 ELSE 0
        upper == IF step < 0 THEN n - 1 ELSE n
        clamp(x) == LET y == IF x < 0 THEN x + n ELSE x
                    IN  IF y < lower THEN lower ELSE IF y > upper THEN upper ELSE y
    IN  <<clamp(start), clamp(stop), step>>

-----------------------------------------------------------------------------
(* The core routines of class bitarray                                      *)

\* _resize without the truncation of the storage
_resize_no_shrink(ba, nbits) ==
    LET size == Len(ba.buffer)
        newsize == bits2bytes(nbits)
    IN  [ba EXCEPT !.nbits = nbits,
                   !.buffer = IF newsize > size THEN ba.buffer \o Bytes(newsize - size, 0)
                              ELSE ba.buffer]

\* self._resize(nbits): the storage is extended with zero bytes or truncated
_resize(ba, nbits) ==
    LET size == Len(ba.buffer)
        newsize == bits2bytes(nbits)
    IN  [ba EXCEPT !.nbits = nbits,
                   !.buffer = IF newsize > size THEN ba.buffer \o Bytes(newsize - size, 0)
                              ELSE IF newsize < size THEN Slice(ba.buffer, 0, newsize)
                              ELSE ba.buffer]

\* self._buffer[a:b] = self._buffer[a:b].translate(reverse_table)
bytereverse(ba, a, b) ==
    LET part == Slice(ba.buffer, a, b)
    IN  [ba EXCEPT !.buffer =
            SliceAssign(ba.buffer, a, b, [k \in 1..Len(part) |-> reverse_table(part[k])])]

\* the loop of _shift_r8: for i in range(b - 1, a - 1, -1)
RECURSIVE shift_loop(_, _, _, _)
shift_loop(buff, i, a, n) ==
    IF i < a THEN buff
    ELSE LET b1 == [buff EXCEPT ![i + 1] = (buff[i + 1] * Pow2(n)) % 256]
             b2 == IF i # a
                   THEN [b1 EXCEPT ![i + 1] = BitOr(b1[i + 1], b1[i] \div Pow2(8 - n))]
                   ELSE b1
         IN  shift_loop(b2, i - 1, a, n)

_shift_r8(ba, a, b, n) ==
    IF n = 0 \/ a = b THEN ba
    ELSE LET r1 == IF ba.endian = 1 THEN bytereverse(ba, a, b) ELSE ba
             r2 == [r1 EXCEPT !.buffer = shift_loop(r1.buffer, b - 1, a, n)]
         IN  IF ba.endian = 1 THEN bytereverse(r2, a, b) ELSE r2

\* the loops of the small n case of _copy_n; with alias the bits are read from
\* the buffer that is being written
RECURSIVE copy_forward(_, _, _, _, _, _, _)
copy_forward(ba, a, src, b, n, alias, i) ==
    IF i >= n THEN ba
    ELSE copy_forward(setbit(ba, i + a, getbit(IF alias THEN ba ELSE src, i + b)),
                      a, src, b, n, alias, i + 1)

\* mutant: the loop runs forward whatever the direction of the overlap
copy_backward_as_forward(ba, a, src, b, alias, i) ==
    copy_forward(ba, a, src, b, i + 1, alias, 0)

RECURSIVE copy_backward(_, _, _, _, _, _)
copy_backward(ba, a, src, b, alias, i) ==
    IF i < 0 THEN ba
    ELSE copy_backward(setbit(ba, i + a, getbit(IF alias THEN ba ELSE src, i + b)),
                       a, src, b, alias, i - 1)

\* the last loop of the general case: for i in range(sb)
RECURSIVE copy_head(_, _, _, _, _, _, _)
copy_head(ba, a, b, t3, oendian, sb, i) ==
    IF i >= sb THEN ba
    ELSE copy_head(setbit(ba, i + a, BitAnd(t3, bitmask_table(oendian, (i + b) % 8))),
                   a, b, t3, oendian, sb, i + 1)

\* mutant: the copied bytes are not reversed when the bit orders differ
copy_aligned_no_reverse(ba, a, src, b, n) ==
    LET p1 == a \div 8
        p2 == (a + n - 1) \div 8
        m  == bits2bytes(n)
        m2 == ones_table(ba.endian, (a + n) % 8)
        t2 == ba.buffer[p2 + 1]
        c1 == [ba EXCEPT !.buffer =
                 SliceAssign(ba.buffer, p1, p1 + m, Slice(src.buffer, b \div 8, (b \div 8) + m))]
    IN  IF m2 # 0
        THEN [c1 EXCEPT !.buffer[p2 + 1] =
                 BitOr(BitAnd(c1.buffer[p2 + 1], m2), BitAnd(t2, BitNot(m2)))]
        ELSE c1

copy_aligned(ba, a, src, b, n) ==
    LET p1 == a \div 8
        p2 == (a + n - 1) \div 8
        m  == bits2bytes(n)
        m2 == ones_table(ba.endian, (a + n) % 8)
        t2 == ba.buffer[p2 + 1]
        c1 == [ba EXCEPT !.buffer =
                 SliceAssign(ba.buffer, p1, p1 + m, Slice(src.buffer, b \div 8, (b \div 8) + m))]
        c2 == IF ba.endian # src.endian THEN bytereverse(c1, p1, p2 + 1) ELSE c1
    IN  IF m2 # 0
        THEN [c2 EXCEPT !.buffer[p2 + 1] =
                 BitOr(BitAnd(c2.buffer[p2 + 1], m2), BitAnd(t2, BitNot(m2)))]
        ELSE c2

\* self._copy_n(a, other, b, n); alias says that other is self
RECURSIVE _copy_n(_, _, _, _, _, _)
_copy_n(ba, a, oth, b, n, alias) ==
    LET src == IF alias THEN ba ELSE oth
    IN  IF n = 0 \/ (alias /\ a = b) THEN ba
        ELSE IF a % 8 = 0 /\ b % 8 = 0 THEN copy_aligned(ba, a, src, b, n)
        ELSE IF n < 8
        THEN IF a <= b THEN copy_forward(ba, a, src, b, n, alias, 0)
             ELSE copy_backward(ba, a, src, b, alias, n - 1)
        ELSE LET p1 == a \div 8
                 p2 == (a + n - 1) \div 8
                 p3 == b \div 8
                 sa == a % 8
                 sb0 == -(b % 8)
                 m1 == ones_table(ba.endian, sa)
                 m2 == ones_table(ba.endian, (a + n) % 8)
                 t1 == ba.buffer[p1 + 1]
                 t2 == ba.buffer[p2 + 1]
                 t3 == src.buffer[p3 + 1]
                 sb == IF sa + sb0 < 0 THEN sb0 + 8 ELSE sb0
                 c1 == _copy_n(ba, a - sa, src, b + sb, n - sb, alias)
                 c2 == _shift_r8(c1, p1, p2 + 1, sa + sb)
                 c3 == IF m1 # 0
                       THEN [c2 EXCEPT !.buffer[p1 + 1] =
                               BitOr(BitAnd(c2.buffer[p1 + 1], BitNot(m1)), BitAnd(t1, m1))]
                       ELSE c2
                 c4 == IF m2 # 0 /\ sa + sb # 0
                       THEN [c3 EXCEPT !.buffer[p2 + 1] =
                               BitOr(BitAnd(c3.buffer[p2 + 1], m2), BitAnd(t2, BitNot(m2)))]
                       ELSE c3
             IN  copy_head(c4, a, b, t3, src.endian, sb, 0)

_delete_n(ba, start, n) ==
    LET nbits == ba.nbits
    IN  _resize(_copy_n(ba, start, ba, start + n, nbits - start - n, TRUE), nbits - n)

\* mutant: the buffer grows but the tail is not shifted
_insert_n_no_shift(ba, start, n) == _resize(ba, ba.nbits + n)

_insert_n(ba, start, n) ==
    LET nbits == ba.nbits
    IN  _copy_n(_resize(ba, nbits + n), start + n, ba, start, nbits - start, TRUE)


\* while k <= q // 2: self._copy_n(k, self, 0, k); k *= 2
RECURSIVE repeat_double(_, _, _)
repeat_double(ba, k, q) ==
    IF k <= q \div 2
    THEN repeat_double(_copy_n(ba, k, ba, 0, k, TRUE), k * 2, q)
    ELSE [self |-> ba, k |-> k]

\* mutant: the bits after the last doubling are not copied
_repeat_no_tail(ba, m) ==
    LET k == ba.nbits
    IN  IF k = 0 \/ m = 1 THEN Result(ba, Returned(0))
        ELSE IF m <= 0 THEN Result(_resize(ba, 0), Returned(None))
        ELSE IF k >= maxsize \div m THEN Result(ba, Raised("OverflowError"))
        ELSE Result(repeat_double(_resize(ba, k * m), k, k * m).self, Returned(None))

\* mutant: the overflow test lets k == maxsize // m through
_repeat_late_overflow(ba, m) ==
    LET k == ba.nbits
    IN  IF k = 0 \/ m = 1 THEN Result(ba, Returned(0))
        ELSE IF m <= 0 THEN Result(_resize(ba, 0), Returned(None))
        ELSE IF k > maxsize \div m THEN Result(ba, Raised("OverflowError"))
        ELSE LET q == k * m
                 d == repeat_double(_resize(ba, q), k, q)
             IN  Result(_copy_n(d.self, d.k, d.self, 0, q - d.k, TRUE), Returned(None))

_repeat(ba, m) ==
    LET k == ba.nbits
    IN  IF k = 0 \/ m = 1 THEN Result(ba, Returned(0))
        ELSE IF m <= 0 THEN Result(_resize(ba, 0), Returned(None))
        ELSE IF k >= maxsize \div m THEN Result(ba, Raised("OverflowError"))
        ELSE LET q == k * m
                 d == repeat_double(_resize(ba, q), k, q)
             IN  Result(_copy_n(d.self, d.k, d.self, 0, q - d.k, TRUE), Returned(None))

\* the characters _extend_01 skips: ord(c) for c in '_ \n\r\t\v'
ignore == {95, 32, 10, 13, 9, 11}

\* mutant: a wrong character raises without the rollback to org_bits
RECURSIVE extend_01_loop_no_rollback(_, _, _, _)
extend_01_loop_no_rollback(ba, s, j, org_bits) ==
    IF j > Len(s) THEN Result(ba, Returned(None))
    ELSE LET c == s[j]
             vi == IF c = 49 THEN 1 ELSE IF c = 48 THEN 0 ELSE -1
         IN  IF c \in ignore THEN extend_01_loop_no_rollback(ba, s, j + 1, org_bits)
             ELSE IF vi < 0 THEN Result(ba, Raised("ValueError"))
             ELSE extend_01_loop_no_rollback(
                      setbit(_resize(ba, ba.nbits + 1), ba.nbits, vi), s, j + 1, org_bits)

\* for c in s.encode('ascii'): ...   (s is the sequence of code points)
RECURSIVE extend_01_loop(_, _, _, _)
extend_01_loop(ba, s, j, org_bits) ==
    IF j > Len(s) THEN Result(ba, Returned(None))
    ELSE LET c == s[j]
             vi == IF c = 49 THEN 1 ELSE IF c = 48 THEN 0 ELSE -1
         IN  IF c \in ignore THEN extend_01_loop(ba, s, j + 1, org_bits)
             ELSE IF vi < 0 THEN Result(_resize(ba, org_bits), Raised("ValueError"))
             ELSE extend_01_loop(
                      setbit(_resize(ba, ba.nbits + 1), ba.nbits, vi), s, j + 1, org_bits)

\* s.encode('ascii') raises before the loop when s holds a non-ASCII character
_extend_01(ba, s) ==
    IF \E j \in 1..Len(s) : s[j] > 127
    THEN Result(ba, Raised("UnicodeEncodeError"))
    ELSE extend_01_loop(ba, s, 1, ba.nbits)

\* the comparison of two ints (bits or lengths) under op, as the if/elif
\* chains of _richcompare compute it
compare_ints(cop, x, y) ==
    IF cop = Py_LT THEN x < y
    ELSE IF cop = Py_LE THEN x <= y
    ELSE IF cop = Py_EQ THEN x = y
    ELSE IF cop = Py_NE THEN x # y
    ELSE IF cop = Py_GT THEN x > y
    ELSE x >= y

\* for i in range(min(vs, ws)): ... and the comparison of the sizes after it
RECURSIVE compare_loop(_, _, _, _)
compare_loop(v, w, cop, i) ==
    IF i >= Min(v.nbits, w.nbits) THEN compare_ints(cop, v.nbits, w.nbits)
    ELSE LET vi == getbit(v, i)
             wi == getbit(w, i)
         IN  IF vi # wi
             THEN IF cop = Py_EQ THEN FALSE
                  ELSE IF cop = Py_NE THEN TRUE
                  ELSE compare_ints(cop, vi, wi)
             ELSE compare_loop(v, w, cop, i + 1)

\* mutant: the last bytes are compared as they are, pad bits included
_richcompare_with_pad_bits(v, w, cop) ==
    LET vs == v.nbits
        ws == w.nbits
    IN  IF (cop = Py_EQ \/ cop = Py_NE) /\ vs # ws THEN cop = Py_NE
        ELSE IF (cop = Py_EQ \/ cop = Py_NE) /\ v.endian = w.endian
        THEN (v.buffer = w.buffer) # (cop = Py_NE)
        ELSE compare_loop(v, w, cop, 0)

\* self._richcompare(other, op) for a bitarray other; the value returned
_richcompare(v, w, cop) ==
    LET vs == v.nbits
        ws == w.nbits
    IN  IF (cop = Py_EQ \/ cop = Py_NE) /\ vs # ws THEN cop = Py_NE
        ELSE IF (cop = Py_EQ \/ cop = Py_NE) /\ v.endian = w.endian
        THEN LET cmp0 == Slice(v.buffer, 0, vs \div 8) # Slice(w.buffer, 0, vs \div 8)
                 cmp == IF ~cmp0 /\ vs % 8 # 0
                        THEN zeroed_last_byte(v) # zeroed_last_byte(w)
                        ELSE cmp0
             IN  (~cmp) # (cop = Py_NE)
        ELSE compare_loop(v, w, cop, 0)

\* for i in range(a, b): res += getbit(self, i)
RECURSIVE count_bits(_, _, _)
count_bits(ba, i, b) ==
    IF i >= b THEN 0 ELSE getbit(ba, i) + count_bits(ba, i + 1, b)

\* for i in range(byte_a, byte_b): res += bitcount_lookup[self._buffer[i]]
RECURSIVE count_bytes(_, _, _)
count_bytes(ba, i, byte_b) ==
    IF i >= byte_b THEN 0
    ELSE bitcount_lookup(ba.buffer[i + 1]) + count_bytes(ba, i + 1, byte_b)

\* mutant: the partial bytes at the ends are counted for vi, not for 1
RECURSIVE _count_edges_by_value(_, _, _, _)
_count_edges_by_value(ba, vi, a, b) ==
    IF a >= b THEN 0
    ELSE LET byte_a == bits2bytes(a)
             byte_b == b \div 8
             res == IF b >= a + 8
                    THEN _count_edges_by_value(ba, vi, a, 8 * byte_a)
                         + count_bytes(ba, byte_a, byte_b)
                         + _count_edges_by_value(ba, vi, 8 * byte_b, b)
                    ELSE count_bits(ba, a, b)
         IN  IF vi # 0 THEN res ELSE b - a - res

RECURSIVE _count(_, _, _, _)
_count(ba, vi, a, b) ==
    IF a >= b THEN 0
    ELSE LET byte_a == bits2bytes(a)
             byte_b == b \div 8
             res == IF b >= a + 8
                    THEN _count(ba, 1, a, 8 * byte_a)
                         + count_bytes(ba, byte_a, byte_b)
                         + _count(ba, 1, 8 * byte_b, b)
                    ELSE count_bits(ba, a, b)
         IN  IF vi # 0 THEN res ELSE b - a - res

\* for i in range(a, b): setbit(self, i, vi)
RECURSIVE setbit_range(_, _, _, _)
setbit_range(ba, i, b, vi) ==
    IF i >= b THEN ba ELSE setbit_range(setbit(ba, i, vi), i + 1, b, vi)

RECURSIVE _setrange(_, _, _, _)
_setrange(ba, a, b, vi) ==
    IF b >= a + 8
    THEN LET byte_a == bits2bytes(a)
             byte_b == b \div 8
             s1 == _setrange(ba, a, 8 * byte_a, vi)
             s2 == [s1 EXCEPT !.buffer =
                      SliceAssign(s1.buffer, byte_a, byte_b,
                                  Bytes(byte_b - byte_a, IF vi # 0 THEN 255 ELSE 0))]
         IN  _setrange(s2, 8 * byte_b, b, vi)
    ELSE setbit_range(ba, a, b, vi)

RECURSIVE _find_bit(_, _, _, _)
\* for i in range(byte_a, byte_b): skip the bytes that hold no vi
RECURSIVE find_skip_bytes(_, _, _, _, _)
find_skip_bytes(ba, vi, i, byte_b, b) ==
    IF i >= byte_b THEN _find_bit(ba, vi, 8 * byte_b, b)
    ELSE IF BitXor(IF vi # 0 THEN 0 ELSE 255, ba.buffer[i + 1]) # 0
    THEN _find_bit(ba, vi, 8 * i, 8 * i + 8)
    ELSE find_skip_bytes(ba, vi, i + 1, byte_b, b)

\* for i in range(a, b): if getbit(self, i) == vi: return i
RECURSIVE find_bits(_, _, _, _)
find_bits(ba, vi, i, b) ==
    IF i >= b THEN -1
    ELSE IF getbit(ba, i) = vi THEN i
    ELSE find_bits(ba, vi, i + 1, b)

\* mutant: the bit loop runs to the end of the byte that holds bit b - 1
_find_bit_to_byte_end(ba, vi, a, b) ==
    IF b - a <= 0 THEN -1 ELSE find_bits(ba, vi, a, 8 * bits2bytes(b))

\* self._find_bit(vi, a, b)
_find_bit(ba, vi, a, b) ==
    LET n == b - a
    IN  IF n <= 0 THEN -1
        ELSE IF n > 8
        THEN LET byte_a == bits2bytes(a)
                 byte_b == b \div 8
                 res == _find_bit(ba, vi, a, 8 * byte_a)
             IN  IF res >= 0 THEN res
                 ELSE find_skip_bytes(ba, vi, byte_a, byte_b, b)
        ELSE find_bits(ba, vi, a, b)

\* self._extend_bitarray(other); alias says that other is self
_extend_bitarray(ba, oth, alias) ==
    LET self_nbits == ba.nbits
        other_nbits == IF alias THEN ba.nbits ELSE oth.nbits
    IN  _copy_n(_resize(ba, self_nbits + other_nbits), self_nbits, oth, 0, other_nbits, alias)

\* self._extend_iter(iterator) for an iterator of ints
RECURSIVE extend_iter_loop(_, _, _, _)
extend_iter_loop(ba, items, j, org_bits) ==
    IF j > Len(items) THEN Result(ba, Returned(None))
    ELSE LET vi == items[j]
         IN  IF vi < 0 \/ vi > 1 THEN Result(_resize(ba, org_bits), Raised("ValueError"))
             ELSE extend_iter_loop(setbit(_resize(ba, ba.nbits + 1), ba.nbits, vi),
                                   items, j + 1, org_bits)

_extend_iter(ba, items) == extend_iter_loop(ba, items, 1, ba.nbits)

\* obj is [kind, val] with kind "bitarray", "self", "bytes", "str" or "iter"
_extend_dispatch(ba, obj) ==
    IF obj.kind = "bitarray" THEN Result(_extend_bitarray(ba, obj.val, FALSE), Returned(None))
    ELSE IF obj.kind = "self" THEN Result(_extend_bitarray(ba, ba, TRUE), Returned(None))
    ELSE IF obj.kind = "bytes" THEN Result(ba, Raised("TypeError"))
    ELSE IF obj.kind = "str" THEN _extend_01(ba, obj.val)
    ELSE _extend_iter(ba, obj.val)

\* bitarray(initial, endian): the object constructed, or the exception
\* initial is [kind, val] with kind "None", "int" or a kind of _extend_dispatch
__init__(initial, endian) ==
    LET e == endian_from_string(endian)
    IN  IF initial.kind = "None"
        THEN Result([endian |-> e, nbits |-> 0, buffer |-> <<>>], Returned(None))
        ELSE IF initial.kind = "int"
        THEN Result([endian |-> e, nbits |-> initial.val,
                     buffer |-> Bytes(bits2bytes(initial.val), 0)], Returned(None))
        ELSE LET e2 == IF initial.kind = "bitarray" /\ endian = "<default>"
                       THEN initial.val.endian ELSE e
             IN  _extend_dispatch([endian |-> e2, nbits |-> 0, buffer |-> <<>>], initial)

append(ba, vi) == setbit(_resize(ba, ba.nbits + 1), ba.nbits, vi)

clear(ba) == _resize(ba, 0)

\* returns the new self and p
fill(ba) ==
    LET su == setunused(ba)
    IN  Result(_resize(su[1], su[1].nbits + su[2]), Returned(su[2]))

insert(ba, i, vi) ==
    LET k == normalize_index(ba.nbits, 1, i)
    IN  setbit(_insert_n(ba, k, 1), k, vi)

\* invert() without an index
invert_all(ba) ==
    [ba EXCEPT !.buffer = [x \in 1..Len(ba.buffer) |-> BitXor(ba.buffer[x], 255)]]

\* invert(i)
invert(ba, i) ==
    LET k == IF i < 0 THEN i + ba.nbits ELSE i
    IN  IF k < 0 \/ k >= ba.nbits THEN Result(ba, Raised("IndexError"))
        ELSE Result(setbit(ba, k, 1 - getbit(ba, k)), Returned(None))

\* the loop of reverse
RECURSIVE reverse_loop(_, _, _)
reverse_loop(ba, i, j) ==
    IF i < j
    THEN LET t == getbit(ba, i)
         IN  reverse_loop(setbit(setbit(ba, i, getbit(ba, j)), j, t), i + 1, j - 1)
    ELSE ba

reverse(ba) == reverse_loop(ba, 0, ba.nbits - 1)

setall(ba, vi) ==
    [ba EXCEPT !.buffer = Bytes(Len(ba.buffer), IF vi # 0 THEN 255 ELSE 0)]

\* mutant: the ones are counted whatever reverse is
sort_count_ones(ba, rev) ==
    LET cnt == _count(ba, 1, 0, ba.nbits)
    IN  _setrange(_setrange(ba, 0, cnt, rev), cnt, ba.nbits, 1 - rev)

\* reverse is 0 or 1 (False or True)
sort(ba, rev) ==
    LET cnt == _count(ba, rev, 0, ba.nbits)
    IN  _setrange(_setrange(ba, 0, cnt, rev), cnt, ba.nbits, 1 - rev)

\* mutant: the bytes are returned with the pad bits as they are
tobytes_keep_pad_bits(ba) == Result(ba, Returned(ba.buffer))

\* returns the new self and the bytes
tobytes(ba) ==
    LET su == setunused(ba)
    IN  Result(su[1], Returned(su[1].buffer))

\* mutant: the bits that aligned the length stay in front of the data
frombytes_keep_alignment(ba, data) ==
    LET t == ba.nbits
        p == 8 * bits2bytes(t) - t
        r1 == _resize(ba, t + p)
    IN  IF Len(data) = 0 THEN ba
        ELSE [r1 EXCEPT !.nbits = r1.nbits + 8 * Len(data), !.buffer = r1.buffer \o data]

\* self.frombytes(data)
frombytes(ba, data) ==
    LET nbytes == Len(data)
        t == ba.nbits
        p == 8 * bits2bytes(t) - t
        r1 == _resize(ba, t + p)
        r2 == [r1 EXCEPT !.nbits = r1.nbits + 8 * nbytes, !.buffer = r1.buffer \o data]
    IN  IF nbytes = 0 THEN ba ELSE _delete_n(r2, t, p)

\* for i in range(nbytes): setbit(self, nbits + i, data[i])
RECURSIVE pack_loop(_, _, _, _)
pack_loop(ba, data, nbits, i) ==
    IF i >= Len(data) THEN ba
    ELSE pack_loop(setbit(ba, nbits + i, data[i + 1]), data, nbits, i + 1)

pack(ba, data) == pack_loop(_resize(ba, ba.nbits + Len(data)), data, ba.nbits, 0)

pop(ba, i) ==
    IF ba.nbits = 0 THEN Result(ba, Raised("IndexError"))
    ELSE LET k == IF i < 0 THEN i + ba.nbits ELSE i
         IN  IF k < 0 \/ k >= ba.nbits THEN Result(ba, Raised("IndexError"))
             ELSE Result(_delete_n(ba, k, 1), Returned(getbit(ba, k)))

remove(ba, vi) ==
    LET i == _find_bit(ba, vi, 0, ba.nbits)
    IN  IF i < 0 THEN Result(ba, Raised("ValueError"))
        ELSE Result(_delete_n(ba, i, 1), Returned(None))

__imul__(ba, n) == _repeat(ba, n)

\* the loop of __delitem__ for a step above 1; returns self after the loop
RECURSIVE delitem_loop(_, _, _, _, _, _)
delitem_loop(ba, i, j, start, stop, step) ==
    IF i >= ba.nbits THEN ba
    ELSE IF (i - start) % step # 0 \/ i >= stop
    THEN delitem_loop(setbit(ba, j, getbit(ba, i)), i + 1, j + 1, start, stop, step)
    ELSE delitem_loop(ba, i + 1, j, start, stop, step)

\* del self[item] for an int item
delitem_int(ba, item) ==
    LET k == IF item < 0 THEN item + ba.nbits ELSE item
    IN  IF k < 0 \/ k >= ba.nbits THEN Result(ba, Raised("IndexError"))
        ELSE Result(_delete_n(ba, k, 1), Returned(None))

\* del self[start:stop:step]
delitem_slice(ba, sl) ==
    LET ind == slice_indices(sl[1], sl[2], sl[3], ba.nbits)
        slicelength == calc_slicelength(ind[1], ind[2], ind[3])
        pos == make_step_positive(slicelength, ind[1], ind[2], ind[3])
    IN  IF pos[3] = 1 THEN _delete_n(ba, pos[1], slicelength)
        ELSE _resize(delitem_loop(ba, pos[1], pos[1], pos[1], pos[2], pos[3]),
                     ba.nbits - slicelength)

\* the loop of _setslice_bitarray for a step other than 1
RECURSIVE setslice_loop(_, _, _, _, _, _)
setslice_loop(ba, oth, i, j, slicelength, step) ==
    IF i >= slicelength THEN ba
    ELSE setslice_loop(setbit(ba, j, getbit(oth, i)), oth, i + 1, j + step, slicelength, step)

\* self[start:stop:step] = other; other is copied first, so it may be self
_setslice_bitarray(ba, sl, oth) ==
    LET ind == slice_indices(sl[1], sl[2], sl[3], ba.nbits)
        start == ind[1]
        step == ind[3]
        slicelength == calc_slicelength(ind[1], ind[2], ind[3])
        increase == oth.nbits - slicelength
        s1 == IF increase > 0 THEN _insert_n(ba, start + slicelength, increase)
              ELSE IF increase < 0 THEN _delete_n(ba, start + oth.nbits, -increase)
              ELSE ba
    IN  IF step = 1 THEN Result(_copy_n(s1, start, oth, 0, oth.nbits, FALSE), Returned(None))
        ELSE IF increase # 0 THEN Result(ba, Raised("ValueError"))
        ELSE Result(setslice_loop(ba, oth, 0, start, slicelength, step), Returned(None))

\* for i in range(start, stop, step): setbit(self, i, vi)
RECURSIVE setbit_step(_, _, _, _, _)
setbit_step(ba, i, stop, step, vi) ==
    IF i >= stop THEN ba ELSE setbit_step(setbit(ba, i, vi), i + step, stop, step, vi)

_setslice_bool(ba, sl, vi) ==
    LET ind == slice_indices(sl[1], sl[2], sl[3], ba.nbits)
        slicelength == calc_slicelength(ind[1], ind[2], ind[3])
        pos == make_step_positive(slicelength, ind[1], ind[2], ind[3])
    IN  setbit_step(ba, pos[1], pos[2], pos[3], vi)

\* self[item] = value for an int item
setitem_int(ba, item, value) ==
    LET k == IF item < 0 THEN item + ba.nbits ELSE item
    IN  IF k < 0 \/ k >= ba.nbits THEN Result(ba, Raised("IndexError"))
        ELSE Result(setbit(ba, k, value), Returned(None))

-----------------------------------------------------------------------------
(* Bounds and input sets                                                    *)

\* longest buffer the copy, insert/delete and count specifications start from
CoreBits == 18

\* most bits one _insert_n inserts
InsBits == 10

\* longest buffer _repeat starts from, and the largest repetition count
RepBits == 12
RepMax == 6

\* longest text drawn, and longest buffer a text is appended to
TextLen == 3
TextBits == 8

\* most bits that follow the common first byte of the sequences compared
CmpTail == 2

\* most operations called on one object in the specification of the methods
MaxOps == 2

\* byte contents the buffers are drawn from (any byte string is a content a
\* bytearray can hold; pad bits are arbitrary)
Patterns ==
    { <<165, 60, 199, 18>>, <<90, 195, 56, 237>>, <<1, 128, 254, 127>> }

Endians == {0, 1}

\* the lengths drawn: the short buffers and the longest ones
CoreLens == {n \in 0..CoreBits : n <= 9 \/ n >= CoreBits - 2}

\* the bitarray of nbits bits over the first bytes of pattern pat
MkBits(endian, nbits, pat) ==
    [endian |-> endian, nbits |-> nbits, buffer |-> Slice(pat, 0, bits2bytes(nbits))]

\* the logical bits of a bitarray, as tolist() reports them
Bits(ba) == [i \in 1..ba.nbits |-> getbit(ba, i - 1)]

-----------------------------------------------------------------------------
(* SpecCopy: _copy_n applied to drawn inputs                                *)

InitCopy ==
    /\ \E e \in Endians, n \in CoreLens, pat \in Patterns : self = MkBits(e, n, pat)
    /\ \E e \in Endians : other = MkBits(e, CoreBits, <<60, 165, 18, 199>>)
    /\ op = "init"
    /\ steps = 0
    /\ args = None
    /\ old = None
    /\ ret = None

\* self._copy_n(a, self, b, n)
CopySelf ==
    /\ op = "init"
    /\ \E a \in 0..self.nbits, b \in 0..self.nbits, n \in 0..self.nbits :
         /\ a + n <= self.nbits
         /\ b + n <= self.nbits
         /\ self' = _copy_n(self, a, self, b, n, TRUE)
         /\ args' = [a |-> a, b |-> b, n |-> n]
    /\ op' = "copy_self"
    /\ steps' = steps + 1
    /\ old' = self
    /\ ret' = None
    /\ UNCHANGED other

\* self._copy_n(a, other, b, n) with another bitarray
CopyOther ==
    /\ op = "init"
    /\ \E a \in 0..self.nbits, b \in 0..other.nbits, n \in 0..self.nbits :
         /\ a + n <= self.nbits
         /\ b + n <= other.nbits
         /\ self' = _copy_n(self, a, other, b, n, FALSE)
         /\ args' = [a |-> a, b |-> b, n |-> n]
    /\ op' = "copy_other"
    /\ steps' = steps + 1
    /\ old' = self
    /\ ret' = None
    /\ UNCHANGED other

NextCopy == CopySelf \/ CopyOther

SpecCopy == InitCopy /\ [][NextCopy]_vars

\* what a copy of n bits from b of src to a of dst must leave in dst
RefCopy(dst, a, src, b, n) ==
    [i \in 1..Len(dst) |-> IF a < i /\ i <= a + n THEN src[i - a + b] ELSE dst[i]]

\* C3: copying between two distinct buffers moves exactly the n bits
CopyOtherCorrect ==
    op = "copy_other" =>
        /\ self.nbits = old.nbits
        /\ Len(self.buffer) = Len(old.buffer)
        /\ Bits(self) = RefCopy(Bits(old), args.a, Bits(other), args.b, args.n)

\* C2: the in-place copy equals the copy from a separate snapshot
CopySelfAsSnapshot ==
    (op = "copy_self" /\ args.a # args.b) =>
        LET snap == _copy_n(old, args.a, old, args.b, args.n, FALSE)
        IN  /\ self.nbits = snap.nbits
            /\ Bits(self) = Bits(snap)
            /\ Bits(self) = RefCopy(Bits(old), args.a, Bits(old), args.b, args.n)

\* C3 witness: an unaligned copy of at least 8 bits between buffers of
\* different bit order that changed the destination
CopyOtherWitness ==
    /\ op = "copy_other"
    /\ self.endian # other.endian
    /\ args.n >= 8
    /\ args.a % 8 # 0
    /\ args.b % 8 # 0
    /\ args.a % 8 # args.b % 8
    /\ Bits(self) # Bits(old)

\* C2 witness: an overlapping in-place copy on the general unaligned path,
\* towards higher indices, that changed the buffer
CopySelfWitness ==
    /\ op = "copy_self"
    /\ args.n >= 8
    /\ args.a % 8 # 0
    /\ args.a > args.b
    /\ args.a < args.b + args.n
    /\ Bits(self) # Bits(old)

-----------------------------------------------------------------------------
(* SpecInsDel: _insert_n, the caller's fill of the gap, then _delete_n      *)

InitCore ==
    /\ \E e \in Endians, n \in CoreLens, pat \in Patterns : self = MkBits(e, n, pat)
    /\ other = MkBits(0, 0, <<>>)
    /\ op = "init"
    /\ steps = 0
    /\ args = None
    /\ old = None
    /\ ret = None

\* self._insert_n(start, n)
InsertN ==
    /\ op = "init"
    /\ \E start \in 0..self.nbits, n \in 0..InsBits :
         /\ self' = _insert_n(self, start, n)
         /\ args' = [start |-> start, n |-> n]
    /\ op' = "insert_n"
    /\ steps' = steps + 1
    /\ old' = self
    /\ UNCHANGED <<other, ret>>

\* the caller gives the inserted bits a value, as insert and slice assignment do
FillGap ==
    /\ op = "insert_n"
    /\ args.n > 0
    /\ \E vi \in {0, 1} : self' = _setrange(self, args.start, args.start + args.n, vi)
    /\ op' = "fill_gap"
    /\ steps' = steps + 1
    /\ UNCHANGED <<other, args, old, ret>>

\* self._delete_n(start, n) with the arguments of the insertion
DeleteN ==
    /\ op \in {"insert_n", "fill_gap"}
    /\ self' = _delete_n(self, args.start, args.n)
    /\ op' = "delete_n"
    /\ steps' = steps + 1
    /\ UNCHANGED <<other, args, old, ret>>

NextInsDel == InsertN \/ FillGap \/ DeleteN

SpecInsDel == InitCore /\ [][NextInsDel]_vars

\* C4: _delete_n(start, n) after _insert_n(start, n) gives back the original
\* length and bits, whatever the inserted bits held
InsertDeleteInverse ==
    op = "delete_n" =>
        /\ self.nbits = old.nbits
        /\ Len(self.buffer) = Len(old.buffer)
        /\ Bits(self) = Bits(old)

\* C4 witness: at least 8 bits inserted at an unaligned place inside the
\* buffer, set to ones, and deleted again
InsertDeleteWitness ==
    /\ op = "delete_n"
    /\ args.n >= 8
    /\ args.start % 8 # 0
    /\ args.start + 8 < old.nbits
    /\ \E i \in 0..(old.nbits - 1) : getbit(old, i) = 0

-----------------------------------------------------------------------------
(* SpecRepeat: _repeat applied to drawn inputs                              *)

InitRepeat ==
    /\ \E e \in Endians, n \in 0..RepBits, pat \in Patterns : self = MkBits(e, n, pat)
    /\ other = MkBits(0, 0, <<>>)
    /\ op = "init"
    /\ steps = 0
    /\ args = None
    /\ old = None
    /\ ret = None

\* self._repeat(m)
Repeat ==
    /\ op = "init"
    /\ \E m \in (-1)..RepMax :
         LET r == _repeat(self, m)
         IN  /\ self' = r.self
             /\ ret' = r.ret
             /\ args' = [m |-> m]
    /\ op' = "repeat"
    /\ steps' = steps + 1
    /\ old' = self
    /\ UNCHANGED other

NextRepeat == Repeat

SpecRepeat == InitRepeat /\ [][NextRepeat]_vars

\* C5: without overflow, _repeat(m) leaves m concatenations of the original
\* bits; m <= 0 empties the buffer; m == 1 or an empty buffer change nothing
RepeatCorrect ==
    (op = "repeat" /\ ret.exc = "none") =>
        LET k == old.nbits
            m == args.m
        IN  /\ Len(self.buffer) = bits2bytes(self.nbits)
            /\ IF k = 0 \/ m = 1 THEN self = old
               ELSE IF m <= 0 THEN self.nbits = 0
               ELSE /\ self.nbits = k * m
                    /\ \A i \in 0..(k * m - 1) : getbit(self, i) = getbit(old, i % k)

\* C5 witness: five bits holding both values, repeated three times
RepeatWitness ==
    /\ op = "repeat"
    /\ ret.exc = "none"
    /\ old.nbits = 5
    /\ args.m = 3
    /\ self.nbits = 15
    /\ \E i, j \in 0..4 : getbit(old, i) = 0 /\ getbit(old, j) = 1

\* C6 as claimed: Overflow exactly when k*m exceeds maxsize
RepeatOverflowExact ==
    (op = "repeat" /\ old.nbits > 0 /\ args.m > 1) =>
        /\ (ret.exc = "OverflowError") <=> (old.nbits * args.m > maxsize)
        /\ ret.exc = "OverflowError" => self = old

\* C6 amended: Overflow exactly when k >= maxsize // m, that is when
\* k*m >= maxsize - maxsize mod m; every product above maxsize fails, the
\* failure leaves the buffer as it was, and otherwise the repetition is done
RepeatOverflowGuard ==
    (op = "repeat" /\ old.nbits > 0 /\ args.m > 1) =>
        LET k == old.nbits
            m == args.m
        IN  /\ (ret.exc = "OverflowError") <=> (k * m + (maxsize % m) >= maxsize)
            /\ k * m > maxsize => ret.exc = "OverflowError"
            /\ ret.exc = "OverflowError" => self = old
            /\ ret.exc # "OverflowError" => (ret.exc = "none" /\ self.nbits = k * m)

\* C6 witness: the call fails although k*m does not exceed maxsize
RepeatOverflowWitness ==
    /\ op = "repeat"
    /\ ret.exc = "OverflowError"
    /\ old.nbits * args.m <= maxsize

-----------------------------------------------------------------------------
(* SpecText: _extend_01 applied to drawn texts                              *)

\* '0' '1' '_' ' ' '\n' '\r' '\t' '\v' and the wrong characters 'X' '2' and
\* a non-ASCII one
Alphabet == {48, 49, 95, 32, 10, 13, 9, 11, 88, 50, 233}

RECURSIVE SeqsUpTo(_, _)
SeqsUpTo(S, n) ==
    IF n = 0 THEN {<<>>}
    ELSE LET shorter == SeqsUpTo(S, n - 1)
         IN  shorter \cup {Append(t, c) : t \in shorter, c \in S}

\* "101X01"
Text101X01 == <<49, 48, 49, 88, 48, 49>>

Texts == SeqsUpTo(Alphabet, TextLen) \cup {Text101X01}

InitText ==
    /\ \E e \in Endians, n \in {0} \cup ((TextBits - 2)..TextBits) :
         self = MkBits(e, n, <<165, 60, 199, 18>>)
    /\ other = MkBits(0, 0, <<>>)
    /\ op = "init"
    /\ steps = 0
    /\ args = None
    /\ old = None
    /\ ret = None

\* self._extend_01(s)
Extend01 ==
    /\ op = "init"
    /\ \E s \in Texts :
         LET r == _extend_01(self, s)
         IN  /\ self' = r.self
             /\ ret' = r.ret
             /\ args' = [s |-> s]
    /\ op' = "extend_01"
    /\ steps' = steps + 1
    /\ old' = self
    /\ UNCHANGED other

NextText == Extend01

SpecText == InitText /\ [][NextText]_vars

IsDigit(c) == c \in {48, 49}

\* the bits a text of valid characters stands for
RECURSIVE TextBitsOf(_)
TextBitsOf(s) ==
    IF s = <<>> THEN <<>>
    ELSE IF IsDigit(Head(s)) THEN <<Head(s) - 48>> \o TextBitsOf(Tail(s))
    ELSE TextBitsOf(Tail(s))

\* C7: a text of '0', '1' and skipped characters appends its digits in order;
\* a text with any other character fails and leaves the length and every bit
ExtendTextAtomic ==
    op = "extend_01" =>
        LET s == args.s
            valid == \A j \in 1..Len(s) : IsDigit(s[j]) \/ s[j] \in {95, 32, 10, 13, 9, 11}
        IN  /\ Len(self.buffer) = bits2bytes(self.nbits)
            /\ IF valid
               THEN /\ ret.exc = "none"
                    /\ Bits(self) = Bits(old) \o TextBitsOf(s)
               ELSE /\ ret.exc # "none"
                    /\ self.nbits = old.nbits
                    /\ Bits(self) = Bits(old)

\* C7 witness: "101X01" on an empty buffer failed and left it empty
ExtendTextWitness ==
    /\ op = "extend_01"
    /\ args.s = Text101X01
    /\ old.nbits = 0
    /\ ret.exc = "ValueError"
    /\ self.nbits = 0

-----------------------------------------------------------------------------
(* SpecCompare: _richcompare applied to drawn pairs                         *)

\* the bitarray holding the given bits, its pad bits taken from padbyte
RECURSIVE SetBits(_, _, _)
SetBits(ba, bits, i) ==
    IF i >= Len(bits) THEN ba ELSE SetBits(setbit(ba, i, bits[i + 1]), bits, i + 1)

FromBits(endian, bits, padbyte) ==
    SetBits([endian |-> endian, nbits |-> Len(bits),
             buffer |-> Bytes(bits2bytes(Len(bits)), padbyte)], bits, 0)

\* bit sequences: nothing or one of two bytes, followed by up to CmpTail bits
CmpSeqs ==
    {base \o t : base \in {<<>>, <<1, 0, 1, 0, 0, 1, 0, 1>>, <<1, 0, 1, 0, 0, 1, 1, 1>>},
                 t \in SeqsUpTo({0, 1}, CmpTail)}

CmpBufs == {FromBits(e, bits, pad) : e \in Endians, bits \in CmpSeqs, pad \in {0, 255}}

InitCompare ==
    /\ self \in CmpBufs
    /\ other \in CmpBufs
    /\ op = "init"
    /\ steps = 0
    /\ args = None
    /\ old = None
    /\ ret = None

\* self._richcompare(other, op)
RichCompare ==
    /\ op = "init"
    /\ \E cop \in {Py_LT, Py_LE, Py_EQ, Py_NE, Py_GT, Py_GE} :
         /\ ret' = Returned(_richcompare(self, other, cop))
         /\ args' = [op |-> cop]
    /\ op' = "richcompare"
    /\ steps' = steps + 1
    /\ old' = self
    /\ UNCHANGED <<self, other>>

NextCompare == RichCompare

SpecCompare == InitCompare /\ [][NextCompare]_vars

\* lexicographic order of sequences: the first difference decides, else a
\* proper prefix is less
LexLess(x, y) ==
    \E i \in 1..(Min(Len(x), Len(y)) + 1) :
        /\ \A j \in 1..(i - 1) : x[j] = y[j]
        /\ IF i <= Min(Len(x), Len(y)) THEN x[i] < y[i]
           ELSE Len(x) < Len(y)

Relation(cop, x, y) ==
    IF cop = 1 THEN LexLess(x, y)
    ELSE IF cop = 2 THEN LexLess(x, y) \/ x = y
    ELSE IF cop = 3 THEN x = y
    ELSE IF cop = 4 THEN x # y
    ELSE IF cop = 5 THEN LexLess(y, x)
    ELSE LexLess(y, x) \/ x = y

\* C8: _richcompare is the relation on the logical bit sequences, whatever
\* the bit orders and the pad bits, and changes neither buffer
CompareIsLexicographic ==
    op = "richcompare" =>
        /\ ret.val = Relation(args.op, Bits(self), Bits(other))
        /\ self = old

\* C8 witness: equal sequences of more than a byte in buffers of different
\* bit order and different bytes compare equal
CompareWitness ==
    /\ op = "richcompare"
    /\ args.op = Py_EQ
    /\ self.endian # other.endian
    /\ self.nbits > 8
    /\ self.nbits % 8 # 0
    /\ Bits(self) = Bits(other)
    /\ self.buffer # other.buffer
    /\ ret.val = TRUE

-----------------------------------------------------------------------------
(* SpecCount: _count applied to drawn buffers and ranges                    *)

\* self._count(vi, a, b)
Count ==
    /\ op = "init"
    /\ \E vi \in {0, 1}, a \in 0..self.nbits, b \in 0..self.nbits :
         /\ ret' = Returned(_count(self, vi, a, b))
         /\ args' = [vi |-> vi, a |-> a, b |-> b]
    /\ op' = "count"
    /\ steps' = steps + 1
    /\ old' = self
    /\ UNCHANGED <<self, other>>

NextCount == Count

SpecCount == InitCore /\ [][NextCount]_vars

\* C10: _count(v, a, b) is the number of indices in [a, b) holding v; ones
\* and zeros over the whole buffer add up to its length; nothing changes
CountCorrect ==
    op = "count" =>
        /\ ret.val = Cardinality({i \in args.a..(args.b - 1) : getbit(self, i) = args.vi})
        /\ args.a >= args.b => ret.val = 0
        /\ _count(self, 1, 0, self.nbits) + _count(self, 0, 0, self.nbits) = self.nbits
        /\ self = old

\* C10 witness: zeros counted over an unaligned range of more than a byte
\* that holds both values
CountWitness ==
    /\ op = "count"
    /\ args.vi = 0
    /\ args.b >= args.a + 8
    /\ args.a % 8 # 0
    /\ args.b % 8 # 0
    /\ ret.val > 0
    /\ ret.val < args.b - args.a

-----------------------------------------------------------------------------
(* SpecFind: _find_bit applied to drawn buffers and ranges                  *)

\* byte contents with whole bytes of zeros and of ones, so that bytes are
\* skipped, and with pad bits that differ from every logical bit
FindPatterns ==
    { <<0, 0, 32, 255>>, <<255, 255, 251, 0>>, <<0, 0, 252, 0>>, <<0, 0, 63, 0>>,
      <<255, 255, 3, 0>>, <<255, 255, 192, 0>>, <<254, 0, 0, 3>>, <<165, 60, 199, 18>> }

InitFind ==
    /\ \E e \in Endians, n \in CoreLens, pat \in FindPatterns : self = MkBits(e, n, pat)
    /\ other = MkBits(0, 0, <<>>)
    /\ op = "init"
    /\ steps = 0
    /\ args = None
    /\ old = None
    /\ ret = None

\* self._find_bit(vi, a, b)
FindBit ==
    /\ op = "init"
    /\ \E vi \in {0, 1}, a \in 0..self.nbits, b \in 0..self.nbits :
         /\ ret' = Returned(_find_bit(self, vi, a, b))
         /\ args' = [vi |-> vi, a |-> a, b |-> b]
    /\ op' = "find_bit"
    /\ steps' = steps + 1
    /\ old' = self
    /\ UNCHANGED <<self, other>>

NextFind == FindBit

SpecFind == InitFind /\ [][NextFind]_vars

\* the indices of [a, b) whose logical bit is vi
Holding(ba, vi, a, b) == {i \in a..(b - 1) : getbit(ba, i) = vi}

\* C11: _find_bit(v, a, b) is the smallest index of [a, b) holding v, and -1
\* exactly when there is none, that is exactly when _count(v, a, b) is 0; the
\* result is a function of the logical bits of [a, b) alone
FindBitCorrect ==
    op = "find_bit" =>
        LET H == Holding(self, args.vi, args.a, args.b)
        IN  /\ H # {} => (ret.val \in H /\ \A i \in H : ret.val <= i)
            /\ H = {} => ret.val = -1
            /\ (ret.val = -1) <=> (_count(self, args.vi, args.a, args.b) = 0)
            /\ self = old

\* C11 witness: nothing found over more than a byte, whole bytes skipped,
\* although a pad bit of the last byte holds the value
FindBitWitness ==
    /\ op = "find_bit"
    /\ args.b - args.a > 8
    /\ args.b = self.nbits
    /\ self.nbits % 8 # 0
    /\ bits2bytes(args.a) < args.b \div 8
    /\ ret.val = -1
    /\ \E k \in (self.nbits % 8)..7 :
         BitAt(self.buffer[Len(self.buffer)], bitpos(self.endian, k)) = args.vi

-----------------------------------------------------------------------------
(* SpecSort: sort applied to drawn buffers                                  *)

\* the bits [1, 0, 1, 1, 0]
Bits10110 == <<1, 0, 1, 1, 0>>

InitSort ==
    /\ \/ \E e \in Endians, n \in CoreLens, pat \in Patterns \cup FindPatterns :
            self = MkBits(e, n, pat)
       \/ \E e \in Endians, padbyte \in {0, 255} : self = FromBits(e, Bits10110, padbyte)
    /\ other = MkBits(0, 0, <<>>)
    /\ op = "init"
    /\ steps = 0
    /\ args = None
    /\ old = None
    /\ ret = None

\* self.sort(reverse)
SortBits ==
    /\ op = "init"
    /\ \E rev \in {0, 1} :
         /\ self' = sort(self, rev)
         /\ args' = [reverse |-> rev]
    /\ ret' = Returned(None)
    /\ op' = "sort"
    /\ steps' = steps + 1
    /\ old' = self
    /\ UNCHANGED other

NextSort == SortBits

SpecSort == InitSort /\ [][NextSort]_vars

\* C12: with z zeros among n bits, sort() leaves z zeros then n - z ones and
\* sort(reverse) leaves n - z ones then z zeros; the length and the number of
\* ones are kept; [1, 0, 1, 1, 0] becomes [0, 0, 1, 1, 1] resp. [1, 1, 1, 0, 0]
SortCorrect ==
    op = "sort" =>
        LET n == old.nbits
            z == Cardinality(Holding(old, 0, 0, n))
        IN  /\ self.nbits = n
            /\ self.endian = old.endian
            /\ args.reverse = 0 =>
                  \A i \in 0..(n - 1) : getbit(self, i) = IF i < z THEN 0 ELSE 1
            /\ args.reverse = 1 =>
                  \A i \in 0..(n - 1) : getbit(self, i) = IF i < n - z THEN 1 ELSE 0
            /\ Cardinality(Holding(self, 1, 0, n)) = n - z
            /\ Bits(old) = Bits10110 =>
                  Bits(self) = IF args.reverse = 0 THEN <<0, 0, 1, 1, 1>>
                               ELSE <<1, 1, 1, 0, 0>>

\* C12 witness: an unsorted buffer of more than two bytes, with at least a
\* byte of zeros and a byte of ones, sorted in reverse
SortWitness ==
    /\ op = "sort"
    /\ args.reverse = 1
    /\ old.nbits > 16
    /\ old.nbits % 8 # 0
    /\ Cardinality(Holding(old, 0, 0, old.nbits)) >= 8
    /\ Cardinality(Holding(old, 1, 0, old.nbits)) >= 8
    /\ Bits(self) # Bits(old)
    /\ Len(self.buffer) = Len(old.buffer)

-----------------------------------------------------------------------------
(* SpecFromBytes: frombytes applied to drawn buffers and byte strings       *)

\* the byte strings drawn: the empty one and strings of one to three bytes
DataStrings ==
    { <<>>, <<0>>, <<255>>, <<177>>, <<177, 78>>, <<1, 128>>, <<77, 0, 254>> }

\* self.frombytes(data)
FromBytesData ==
    /\ op = "init"
    /\ \E data \in DataStrings :
         /\ self' = frombytes(self, data)
         /\ args' = [data |-> data]
    /\ ret' = Returned(None)
    /\ op' = "frombytes"
    /\ steps' = steps + 1
    /\ old' = self
    /\ UNCHANGED other

NextFromBytes == FromBytesData

SpecFromBytes == InitCore /\ [][NextFromBytes]_vars

\* C13: frombytes(data) with k > 0 bytes on a buffer of t bits leaves t + 8k
\* bits, the first t as they were, then the bits of every data byte in the
\* bit order of the buffer, directly after bit t - 1; empty data changes
\* nothing
FromBytesCorrect ==
    op = "frombytes" =>
        LET t == old.nbits
            k == Len(args.data)
        IN  /\ k = 0 => self = old
            /\ k > 0 =>
                  /\ self.nbits = t + 8 * k
                  /\ self.endian = old.endian
                  /\ Len(self.buffer) = bits2bytes(t + 8 * k)
                  /\ \A i \in 0..(t - 1) : getbit(self, i) = getbit(old, i)
                  /\ \A j \in 0..(k - 1) : \A i \in 0..7 :
                       getbit(self, t + 8 * j + i)
                         = BitAt(args.data[j + 1], bitpos(old.endian, i))

\* C13 witness: several bytes appended to a buffer of more than a byte whose
\* length is not a multiple of 8 and whose pad bits are not all zero
FromBytesWitness ==
    /\ op = "frombytes"
    /\ old.nbits > 8
    /\ old.nbits % 8 # 0
    /\ Len(args.data) >= 2
    /\ \E q \in (old.nbits % 8)..7 :
         BitAt(old.buffer[Len(old.buffer)], bitpos(old.endian, q)) = 1
    /\ \E i, j \in old.nbits..(self.nbits - 1) : getbit(self, i) # getbit(self, j)

-----------------------------------------------------------------------------
(* Spec: an object is constructed and its methods are called on it          *)

Pat == <<165, 60, 199, 18>>

\* the arguments of bitarray(initial, endian) drawn
InitArgs ==
    << [kind |-> "None", val |-> None],
       [kind |-> "int", val |-> 3],
       [kind |-> "int", val |-> 11],
       [kind |-> "bitarray", val |-> MkBits(0, 13, Pat)],
       [kind |-> "bitarray", val |-> MkBits(1, 13, Pat)],
       [kind |-> "str", val |-> <<49, 48, 32, 49, 49>>],
       [kind |-> "iter", val |-> <<1, 0, 1, 1, 0, 0, 1, 0, 1, 1>>] >>

\* the objects that have been in use: MkBits(e, n, Pat) is what
\* frombytes(Pat) and pops from the end leave
UsedObjects == {MkBits(e, n, Pat) : e \in Endians, n \in {6, 13}}

\* an object as constructed, or one that has been in use
Init ==
    /\ self \in {__init__(InitArgs[k], endian).self :
                    k \in 1..Len(InitArgs), endian \in {"<default>", "little", "big"}}
                \cup UsedObjects
    /\ other = MkBits(0, 0, <<>>)
    /\ op = "init"
    /\ steps = 0
    /\ args = None
    /\ old = None
    /\ ret = None

\* the bookkeeping of a call of method name with arguments a and outcome r
Call(name, a, r) ==
    /\ self' = r.self
    /\ ret' = r.ret
    /\ op' = name
    /\ args' = a
    /\ old' = self
    /\ steps' = steps + 1
    /\ UNCHANGED other

AppendBit ==
    /\ steps < MaxOps
    /\ \E vi \in {0, 1} : Call("append", [vi |-> vi], Result(append(self, vi), Returned(None)))

\* the objects extend is given
ExtendArgs ==
    << [kind |-> "bitarray", val |-> MkBits(0, 5, <<90>>)],
       [kind |-> "bitarray", val |-> MkBits(1, 11, <<90, 195>>)],
       [kind |-> "self", val |-> None],
       [kind |-> "bytes", val |-> <<1>>],
       [kind |-> "str", val |-> <<48, 95, 49>>],
       [kind |-> "str", val |-> <<49, 88>>],
       [kind |-> "iter", val |-> <<1, 0>>],
       [kind |-> "iter", val |-> <<1, 2>>] >>

Extend ==
    /\ steps < MaxOps
    /\ \E k \in 1..Len(ExtendArgs) :
         Call("extend", [obj |-> k], _extend_dispatch(self, ExtendArgs[k]))

Insert ==
    /\ steps < MaxOps
    /\ \E a \in {<<0, 1>>, <<3, 0>>, <<-1, 1>>} :
         Call("insert", [i |-> a[1], vi |-> a[2]],
              Result(insert(self, a[1], a[2]), Returned(None)))

Pop ==
    /\ steps < MaxOps
    /\ \E i \in {-1, 3} : Call("pop", [i |-> i], pop(self, i))

Remove ==
    /\ steps < MaxOps
    /\ \E vi \in {0, 1} : Call("remove", [vi |-> vi], remove(self, vi))

DelItem ==
    /\ steps < MaxOps
    /\ \E item \in {1} : Call("delitem", [item |-> item], delitem_int(self, item))

DelSlice ==
    /\ steps < MaxOps
    /\ \E sl \in {<<1, 4, 1>>, <<2, 12, 1>>, <<0, 20, 2>>, <<6, 1, -2>>} :
         Call("delslice", [sl |-> sl], Result(delitem_slice(self, sl), Returned(None)))

SetItem ==
    /\ steps < MaxOps
    /\ \E a \in {<<0, 1>>, <<-1, 0>>} :
         Call("setitem", [item |-> a[1], value |-> a[2]], setitem_int(self, a[1], a[2]))

\* self[sl] = value for a bitarray value: another object or self
SetSliceBitarray ==
    /\ steps < MaxOps
    /\ \E a \in {<<1, 3, 1, 1>>, <<2, 11, 1, 1>>, <<2, 11, 1, 2>>, <<1, 3, 1, 3>>,
                  <<0, 10, 2, 1>>, <<4, 0, -1, 1>>} :
         LET sl == <<a[1], a[2], a[3]>>
             k == a[4]
         IN  Call("setslice_bitarray", [sl |-> sl, obj |-> k],
                  _setslice_bitarray(self, sl, IF ExtendArgs[k].kind = "self" THEN self
                                               ELSE ExtendArgs[k].val))

SetSliceBool ==
    /\ steps < MaxOps
    /\ \E a \in {<<0, 20, 1, 1>>, <<1, 9, 2, 0>>, <<9, 1, -3, 1>>} :
         LET sl == <<a[1], a[2], a[3]>>
         IN  Call("setslice_bool", [sl |-> sl, vi |-> a[4]],
                  Result(_setslice_bool(self, sl, a[4]), Returned(None)))

IMul ==
    /\ steps < MaxOps
    /\ \E n \in {0, 2, 3} : Call("imul", [n |-> n], __imul__(self, n))

Clear ==
    /\ steps < MaxOps
    /\ Call("clear", None, Result(clear(self), Returned(None)))

Fill ==
    /\ steps < MaxOps
    /\ Call("fill", None, fill(self))

Pack ==
    /\ steps < MaxOps
    /\ \E data \in {<<1>>, <<0, 7, 1>>} :
         Call("pack", [data |-> data], Result(pack(self, data), Returned(None)))

FromBytes ==
    /\ steps < MaxOps
    /\ \E data \in {<<>>, <<165>>, <<60, 199>>} :
         Call("frombytes", [data |-> data], Result(frombytes(self, data), Returned(None)))

Sort ==
    /\ steps < MaxOps
    /\ \E rev \in {0, 1} :
         Call("sort", [reverse |-> rev], Result(sort(self, rev), Returned(None)))

Invert ==
    /\ steps < MaxOps
    /\ Call("invert", None, Result(invert_all(self), Returned(None)))

InvertAt ==
    /\ steps < MaxOps
    /\ \E i \in {-1} : Call("invert_at", [i |-> i], invert(self, i))

SetAll ==
    /\ steps < MaxOps
    /\ \E vi \in {0, 1} :
         Call("setall", [vi |-> vi], Result(setall(self, vi), Returned(None)))

Reverse ==
    /\ steps < MaxOps
    /\ Call("reverse", None, Result(reverse(self), Returned(None)))

ToBytes ==
    /\ steps < MaxOps
    /\ Call("tobytes", None, tobytes(self))

Next ==
    \/ AppendBit \/ Extend \/ Insert \/ Pop \/ Remove \/ DelItem \/ DelSlice
    \/ SetItem \/ SetSliceBitarray \/ SetSliceBool \/ IMul \/ Clear \/ Fill
    \/ Pack \/ FromBytes \/ Sort \/ Invert \/ InvertAt \/ SetAll \/ Reverse
    \/ ToBytes

Spec == Init /\ [][Next]_vars

\* C1: after construction and after every completed operation the buffer
\* holds exactly ceil(nbits / 8) bytes
StorageMatchesLength ==
    /\ self.nbits >= 0
    /\ Len(self.buffer) = (self.nbits + 7) \div 8

\* C1 witness: frombytes on a buffer whose length was not a multiple of 8
StorageWitness ==
    /\ op = "frombytes"
    /\ old.nbits % 8 # 0
    /\ Len(args.data) = 2
    /\ self.nbits = old.nbits + 16

\* the pad bits of the last byte of the bytes b of a buffer of nbits bits
PadBits(b, nbits, endian) ==
    {BitAt(b[Len(b)], bitpos(endian, k)) : k \in (nbits % 8)..(IF nbits % 8 = 0 THEN -1 ELSE 7)}

\* C9: tobytes returns ceil(nbits / 8) bytes with every pad bit 0 and every
\* logical bit that of the buffer, and leaves the length and the logical bits
ToBytesNormalized ==
    op = "tobytes" =>
        LET b == ret.val
        IN  /\ ret.exc = "none"
            /\ Len(b) = (old.nbits + 7) \div 8
            /\ PadBits(b, old.nbits, old.endian) \subseteq {0}
            /\ \A i \in 0..(old.nbits - 1) :
                 BitAt(b[(i \div 8) + 1], bitpos(old.endian, i % 8)) = getbit(old, i)
            /\ self.nbits = old.nbits
            /\ Bits(self) = Bits(old)

\* C9 witness: tobytes on a buffer whose pad bits were set by an earlier
\* operation
ToBytesWitness ==
    /\ op = "tobytes"
    /\ steps >= 2
    /\ old.nbits % 8 # 0
    /\ old.nbits > 8
    /\ 1 \in PadBits(old.buffer, old.nbits, old.endian)
    /\ \E i \in 0..(old.nbits - 1) : getbit(old, i) = 1
    /\ \E i \in 0..(old.nbits - 1) : getbit(old, i) = 0

====
